---- MODULE Spec2Model ----
(***************************************************************************)
(* MyOrderFellow: the webhook order endpoint (orderReceptions/views.py),   *)
(* its notification tasks and webhook signature verification               *)
(* (orderReceptions/utils.py), the KYC permission (base/permissions.py)    *)
(* and the webhook credential life cycle (users/models.py,                 *)
(* users/signals.py).                                                      *)
(*                                                                         *)
(* The database is the shared state.  A request is a process that runs its *)
(* handler one database operation at a time, so two requests interleave    *)
(* exactly where the code issues separate queries (no handler opens a      *)
(* transaction).  Tasks run inside enqueue(): settings/base.py configures  *)
(* django_tasks' ImmediateBackend, which executes the task in the          *)
(* caller's thread and records a raised exception as a FAILED result       *)
(* instead of propagating it.                                              *)
(***************************************************************************)
EXTENDS Integers, Sequences, FiniteSets, TLC

\* ------------------------------------------------------------- bounds
\* Orders ever created (ids are fresh: uuid4 values are never reused).
MaxOrders == 1
\* The clock stops advancing here (days).
MaxClock == 91
\* One clock step (days).
TickDays == 91
\* Longest signature header tried by the verification-only specification.
MaxSigLen == 3
\* Most consecutive send_mail calls that raise before one returns, tried by
\* the task-only specification.
MaxFailing == 4
\* Most OrderCustomerDetails rows already stored when the serializer-only
\* specification saves an order.
MaxCustomers == 3
\* Most OTP rows an account is issued.
MaxOTPs == 2

\* ------------------------------------------------------------- constants
\* timedelta(days=90): lifetime of a generated webhook secret.
SecretLifetimeDays == 90

\* The four OrderTrackingStatusChoices values.
PENDING == "PENDING"
IN_TRANSIT == "IN TRANSIT"
OUT_FOR_DELIVERY == "OUT FOR DELIVERY"
DELIVERED == "DELIVERED"
OrderTrackingStatusChoices == {PENDING, IN_TRANSIT, OUT_FOR_DELIVERY, DELIVERED}

\* ------------------------------------------------------------- domains
\* Business accounts (rows of users.User).  Their e-mail is their name.
Users == {"biz"}
\* An e-mail that belongs to no account.
UnknownEmail == "ghost"
\* An absent header, payload field or query parameter (Python None).
None == "None"
\* A request made without valid JWT credentials.
Anonymous == "anonymous"
\* Customer e-mail addresses and order addresses used in payloads.
CustomerEmails == {"c1"}
Addresses == {"A", "B"}
\* A customer e-mail that EmailField rejects.
BadEmail == "not-an-email"
\* A tracking_status value that is not one of the choices.
BogusStatus == "SHIPPED"
\* The history rows staff adds through the admin site (each at most once
\* while it is stored).
StaffRows == {[order |-> 1, status |-> DELIVERED]}
\* Concurrent request handlers (server workers).
Slots == {"r1", "r2"}
OrderIds == 1..MaxOrders
\* The id a request names: none, or an order id (0 was never issued).
RequestIds == [given : {FALSE}, pk : {0}] \cup [given : {TRUE}, pk : 0..MaxOrders]
\* The e-mail headers and the callers tried by requests.
Principals == Users \cup {Anonymous}
AccountHeaders == Users \cup {UnknownEmail, None}
\* X-Webhook-Signature values tried by requests: absent, and the first two
\* keys an account gets.
Signatures == {<<>>, <<0, 1>>, <<0, 2>>}

NoOrder == [exists |-> FALSE]
NoSecret == [exists |-> FALSE]
NoJob == [kind |-> None]
NoKYC == [exists |-> FALSE, approved |-> FALSE]

VARIABLES now,     \* timezone.now(), in days
    is_active,      \* User.is_active, per account
    kyc,            \* the account's UserKYC row, or NoKYC
    webhook_secret, \* the account's WebhookSecret row, or NoSecret
    customers,      \* OrderCustomerDetails rows: sequence of e-mails, id = index
    orders,         \* OrderDetails rows by id, NoOrder where no row is stored
    nextId,         \* the next fresh order id
    history,        \* OrderStatusHistory rows, in insertion order
    req,            \* the request each worker is handling
    verified,       \* verification-only specification: the call and its outcome
    executed,       \* task-only specification: the job and its execution
    calls,          \* account-only specifications: the call each worker is in
    secret_rows,    \* number of WebhookSecret rows stored, per account
    otp_in_db       \* the account's OTP rows by code, in the order issued

vars == <<now, is_active, kyc, webhook_secret, customers, orders, nextId,
          history, req, verified, executed, calls, secret_rows, otp_in_db>>

db == <<is_active, kyc, webhook_secret, customers, orders, nextId, history>>
credentials == <<is_active, kyc, webhook_secret>>
orderStore == <<customers, orders, nextId, history>>
accountCalls == <<calls, secret_rows, otp_in_db>>

\* ------------------------------------------------------------- credentials
\* f"whsk_{secrets.token_urlsafe(32)}": the prefix (0) and a fresh token.
\* Tokens are numbered by generation; a character is an integer, -1 is a
\* character outside ASCII.
new_secret_key(old) == <<0, (IF old = NoSecret THEN 0 ELSE old.secret_key[2]) + 1>>

\* is_expired with the comparison slipped to >=: a credential already counts
\* as expired at the instant expires_at.
is_expired_AtExpiry(ws, clock) ==
    IF ws.expires_at = <<>> THEN FALSE ELSE clock >= ws.expires_at[1]

\* WebhookSecret.is_expired
\* expires_at is <<>> when null and <<t>> otherwise.
is_expired(ws, clock) ==
    IF ws.expires_at = <<>> THEN FALSE ELSE clock > ws.expires_at[1]

\* regenerate that extends the lifetime and keeps the secret value.
regenerate_KeepingKey(ws, clock) ==
    [exists |-> TRUE,
     secret_key |-> ws.secret_key,
     is_active |-> TRUE,
     expires_at |-> <<clock + SecretLifetimeDays>>]

\* WebhookSecret.regenerate: same row, new key, new expiry, active.
regenerate(ws, clock) ==
    [exists |-> TRUE,
     secret_key |-> new_secret_key(ws),
     is_active |-> TRUE,
     expires_at |-> <<clock + SecretLifetimeDays>>]

\* WebhookSecret.objects.create(user, secret_key, is_active=True, expires_at)
create_webhook_secret(clock) ==
    [exists |-> TRUE,
     secret_key |-> new_secret_key(NoSecret),
     is_active |-> TRUE,
     expires_at |-> <<clock + SecretLifetimeDays>>]

\* secrets.compare_digest on two str: equality, and TypeError when either
\* holds a non-ASCII character.
HasNonAscii(s) == \E i \in 1..Len(s) : s[i] < 0

\* compare_digest with its answer inverted.
compare_digest_Inverted(a, b) ==
    IF HasNonAscii(a) \/ HasNonAscii(b) THEN "TypeError"
    ELSE IF a = b THEN "False" ELSE "True"

compare_digest(a, b) ==
    IF HasNonAscii(a) \/ HasNonAscii(b) THEN "TypeError"
    ELSE IF a = b THEN "True" ELSE "False"

\* verify_webhook_signature that compares the signature before it looks at
\* the credential's active flag and expiry.
verify_webhook_signature_ComparingFirst(customer_email, signature, act, secrets, clock) ==
    IF customer_email = None THEN "MissingCredentialHeader"
    ELSE IF ~(customer_email \in Users /\ act[customer_email])
         THEN "UnknownOrInactiveAccount"
    ELSE IF signature = <<>> THEN "MissingCredentialHeader"
    ELSE LET ws == secrets[customer_email] IN
         IF ws = NoSecret THEN "NoCredential"
         ELSE LET eq == compare_digest(signature, ws.secret_key) IN
              IF eq = "TypeError" THEN "TypeError"
              ELSE IF eq = "False" THEN "SignatureMismatch"
              ELSE IF ~ws.is_active \/ is_expired(ws, clock)
              THEN "CredentialExpired"
              ELSE "Authenticated"

\* verify_webhook_signature: the outcome of the checks, in the code's order.
\*   MissingCredentialHeader   ValueError("X-Customer-Email header is missing.")
\*                             ValueError("X-Webhook-Signature header is missing.")
\*   UnknownOrInactiveAccount  ValueError("Company account not found or inactive.")
\*   NoCredential              company.webhook_secret raises RelatedObjectDoesNotExist
\*   CredentialExpired         ValueError("Webhook secret is inactive or expired")
\*   SignatureMismatch         Exception("Invalid signature")
\*   TypeError                 compare_digest refuses a non-ASCII str
\* An empty header value is falsy, like an absent one.
verify_webhook_signature(customer_email, signature, act, secrets, clock) ==
    IF customer_email = None THEN "MissingCredentialHeader"
    ELSE IF ~(customer_email \in Users /\ act[customer_email])
         THEN "UnknownOrInactiveAccount"
    ELSE IF signature = <<>> THEN "MissingCredentialHeader"
    ELSE LET ws == secrets[customer_email] IN
         IF ws = NoSecret THEN "NoCredential"
         ELSE IF ~ws.is_active \/ is_expired(ws, clock) THEN "CredentialExpired"
         ELSE LET eq == compare_digest(signature, ws.secret_key) IN
              IF eq = "TypeError" THEN "TypeError"
              ELSE IF eq = "False" THEN "SignatureMismatch"
              ELSE "Authenticated"

\* has_permission that only asks for a KYC row, not for its approval.
has_permission_AnyKYC(principal, k) ==
    IF principal # Anonymous THEN k[principal] # NoKYC ELSE FALSE

\* IsVerifiedUser.has_permission
has_permission(principal, k) ==
    IF principal # Anonymous
    THEN (IF k[principal] = NoKYC THEN FALSE ELSE k[principal].approved)
    ELSE FALSE

\* ------------------------------------------------------------- tasks
\* What one execution of a task did: its TaskResult status, the history
\* rows it inserted, the recipient of the e-mail it sent (None: no e-mail),
\* the tracking status that e-mail names (None: none) and its number of
\* send_mail calls.  mail_ok: whether send_mail returns or raises.

\* send_order_received_confirmation
send_order_received_confirmation(order_id, ords, custs, mail_ok) ==
    IF ords[order_id] = NoOrder
    THEN [result |-> "SUCCEEDED", rows |-> <<>>, mail_to |-> None,
          named |-> None, attempts |-> 0]
    ELSE [result |-> IF mail_ok THEN "SUCCEEDED" ELSE "FAILED",
          rows |-> <<>>,
          mail_to |-> IF mail_ok THEN custs[ords[order_id].customer_details]
                      ELSE None,
          named |-> None,
          attempts |-> 1]

\* send_order_status_update_email as it would run had it loaded the order
\* by order_id first: it records the order's current status and mails it.
send_order_status_update_email_Recording(order_id, ords, custs, mail_ok) ==
    IF ords[order_id] = NoOrder
    THEN [result |-> "SUCCEEDED", rows |-> <<>>, mail_to |-> None,
          named |-> None, attempts |-> 0]
    ELSE [result |-> IF mail_ok THEN "SUCCEEDED" ELSE "FAILED",
          rows |-> <<[order |-> order_id,
                      status |-> ords[order_id].tracking_status]>>,
          mail_to |-> IF mail_ok THEN custs[ords[order_id].customer_details]
                      ELSE None,
          named |-> IF mail_ok THEN ords[order_id].tracking_status ELSE None,
          attempts |-> 1]

\* send_order_status_update_email: order_instance is None when the arguments
\* of OrderStatusHistory.objects.create are evaluated, so
\* order_instance.tracking_status raises AttributeError, which the
\* except OrderStatusHistory.DoesNotExist clause does not catch.
send_order_status_update_email(order_id, ords, custs, mail_ok) ==
    LET order_instance == None IN
    IF order_instance = None
    THEN [result |-> "FAILED", rows |-> <<>>, mail_to |-> None,
          named |-> None, attempts |-> 0]
    ELSE [result |-> IF mail_ok THEN "SUCCEEDED" ELSE "FAILED",
          rows |-> <<[order |-> order_instance,
                      status |-> ords[order_instance].tracking_status]>>,
          mail_to |-> IF mail_ok THEN custs[ords[order_instance].customer_details]
                      ELSE None,
          named |-> IF mail_ok THEN ords[order_instance].tracking_status
                    ELSE None,
          attempts |-> 1]

\* send_order_deleted_email
send_order_deleted_email(order_id, customer_email, mail_ok) ==
    [result |-> IF mail_ok THEN "SUCCEEDED" ELSE "FAILED",
     rows |-> <<>>,
     mail_to |-> IF mail_ok THEN customer_email ELSE None,
     named |-> None,
     attempts |-> 1]

\* A backend that stores a job and never runs it.
TASKS_Dummy == "DummyBackend"

\* TASKS["default"]["BACKEND"]
TASKS == "ImmediateBackend"

\* enqueue that runs the task and then runs it once more.
enqueue_Twice(run) ==
    [result |-> run.result, rows |-> run.rows \o run.rows,
     mail_to |-> run.mail_to, named |-> run.named,
     attempts |-> run.attempts + run.attempts, executions |-> 2]

\* task.enqueue(args) on the configured backend.  ImmediateBackend executes
\* the task once, in the caller's thread, before enqueue returns, and turns
\* a raised exception into the result status FAILED; a backend without a
\* worker leaves the job READY.  run: what one execution of the task does.
enqueue(run) ==
    IF TASKS = "ImmediateBackend"
    THEN [result |-> run.result, rows |-> run.rows, mail_to |-> run.mail_to,
          named |-> run.named, attempts |-> run.attempts, executions |-> 1]
    ELSE [result |-> "READY", rows |-> <<>>, mail_to |-> None,
          named |-> None, attempts |-> 0, executions |-> 0]

\* The job as the task backend reports it: the TaskResult of enqueue.
Job(kind, order_id, email, run) ==
    [kind |-> kind, order_id |-> order_id, email |-> email,
     result |-> run.result, mail_to |-> run.mail_to, named |-> run.named,
     attempts |-> run.attempts, executions |-> run.executions]

\* ------------------------------------------------------------- requests
\* A request without webhook headers.
NoHeaders == [customer_email |-> None, signature |-> <<>>]

\* A worker's request: where its handler stands (pc), the handler's locals
\* it still needs, and, once answered (pc = "done"), what the client and
\* the task backend observed.  headers, valid: what a POST was sent, its
\* webhook headers and whether its payload validates and has a customer
\* block (validates: whether it validates); address, sent: the address and
\* the status a PATCH supplied.
IdleReq ==
    [pc |-> "idle", method |-> None, caller |-> None, id |-> 0,
     inst |-> NoOrder, sent |-> None, was |-> None, became |-> None,
     email |-> None, rows |-> <<>>, removed |-> 0, auth |-> None, status |-> 0,
     job |-> NoJob, headers |-> NoHeaders, valid |-> FALSE, address |-> None,
     validates |-> FALSE]

\* A response is observed before anything else happens.
Quiet == \A s \in Slots : req[s].pc # "done"
Ready(r) == Quiet /\ req[r].pc = "idle"
At(r, pc) == Quiet /\ req[r].pc = pc

\* A handler that called the task directly instead of enqueueing it: the
\* task's exception would leave the view as an unhandled fault.
Response_Raising(code, run) == IF run.result = "FAILED" THEN 500 ELSE code

\* return Response(..., status=code) after <task>.enqueue(...): enqueue
\* returns the job's result object whatever the job did, the view discards
\* it and answers with the code of its own work.
Response(code, run) == code

\* The response leaves the handler: of the handler's locals only what the
\* client and the task backend observe is kept.
Respond(r, code, fields) ==
    req' = [req EXCEPT ![r] = [fields EXCEPT !.pc = "done", !.status = code,
                                             !.inst = NoOrder]]

\* JWTAuthentication: a token of an account that exists and is active.
is_authenticated(principal) == principal # Anonymous /\ is_active[principal]

\* Admission with the failed comparison swallowed: a mismatching signature
\* no longer stops the handler.
Admission_Lenient(principal, customer_email, signature, allow_request) ==
    LET outcome == verify_webhook_signature(customer_email, signature,
                                            is_active, webhook_secret, now)
        seen == [caller |-> principal, secrets |-> webhook_secret]
    IN  IF ~is_authenticated(principal)
        THEN seen @@ [status |-> 401, auth |-> None]
        ELSE IF ~has_permission(principal, kyc)
        THEN seen @@ [status |-> 403, auth |-> None]
        ELSE IF ~allow_request
        THEN seen @@ [status |-> 429, auth |-> None]
        ELSE IF outcome \notin {"Authenticated", "SignatureMismatch"}
        THEN seen @@ [status |-> 500, auth |-> outcome]
        ELSE seen @@ [status |-> 0, auth |-> outcome]

\* Admission whose verification renews an expired credential on the way
\* (what get_or_create_webhook_secret does on read).
Admission_Regenerating(principal, customer_email, signature, allow_request) ==
    LET outcome == verify_webhook_signature(customer_email, signature,
                                            is_active, webhook_secret, now)
        renewed == IF outcome = "CredentialExpired"
                   THEN [webhook_secret EXCEPT
                            ![customer_email] = regenerate(@, now)]
                   ELSE webhook_secret
        seen == [caller |-> principal, secrets |-> renewed]
    IN  IF ~is_authenticated(principal)
        THEN seen @@ [status |-> 401, auth |-> None]
        ELSE IF ~has_permission(principal, kyc)
        THEN seen @@ [status |-> 403, auth |-> None]
        ELSE IF ~allow_request
        THEN seen @@ [status |-> 429, auth |-> None]
        ELSE IF outcome # "Authenticated"
        THEN seen @@ [status |-> 500, auth |-> outcome]
        ELSE seen @@ [status |-> 0, auth |-> outcome]

\* APIView.dispatch up to the handler's first statement: authentication,
\* IsVerifiedUser, ScopedRateThrottle, then verify_webhook_signature(request).
\* An unauthenticated request is answered 401 (JWTAuthentication supplies a
\* WWW-Authenticate header), a refused permission 403, a throttled request
\* 429.  allow_request is the throttle's answer: whether fewer than ten
\* requests ("webhook": "10/minute") of this caller were counted in the last
\* minute.
\* Listing requests are counted and change no row, and a minute changes no
\* row, so both answers occur in every state that admits the caller.  The
\* ValueError or
\* Exception of a failed verification is no APIException, so it leaves the
\* view as an unhandled error (500).  Status 0: the handler goes on.
\* secrets: the WebhookSecret table as these steps leave it (none writes).
Admission(principal, customer_email, signature, allow_request) ==
    LET outcome == verify_webhook_signature(customer_email, signature,
                                            is_active, webhook_secret, now)
        seen == [caller |-> principal, secrets |-> webhook_secret]
    IN  IF ~is_authenticated(principal)
        THEN seen @@ [status |-> 401, auth |-> None]
        ELSE IF ~has_permission(principal, kyc)
        THEN seen @@ [status |-> 403, auth |-> None]
        ELSE IF ~allow_request
        THEN seen @@ [status |-> 429, auth |-> None]
        ELSE IF outcome # "Authenticated"
        THEN seen @@ [status |-> 500, auth |-> outcome]
        ELSE seen @@ [status |-> 0, auth |-> outcome]

\* The webhook headers and the throttle's answer tried with a request of
\* this caller.  A caller the permission check refuses is answered before
\* any header is read, and verification stops at an absent or unknown
\* account before it reads the signature, so there one value stands for
\* all; a throttled request comes without headers or with the headers of an
\* account.
Headers(principal) ==
    IF is_authenticated(principal) /\ has_permission(principal, kyc)
    THEN {h \in [customer_email : AccountHeaders, signature : Signatures,
                 allow_request : BOOLEAN] :
            /\ h.customer_email \in Users \/ h.signature = <<>>
            /\ \/ h.allow_request
               \/ h.customer_email = None
               \/ h.customer_email \in Users /\ h.signature # <<>>}
    ELSE {[customer_email |-> None, signature |-> <<>>, allow_request |-> TRUE]}

\* The request object of a handler: its method, request.user and what
\* verification made of its headers.
Request(method, adm) ==
    [IdleReq EXCEPT !.method = method, !.caller = adm.caller, !.auth = adm.auth]

\* OrderDetails.objects.get(pk=pk) inside get_object: the row, or Http404.
get_object(id, ords) ==
    IF id.given /\ id.pk \in OrderIds /\ ords[id.pk] # NoOrder THEN ords[id.pk]
    ELSE NoOrder

\* OrderDetailSerializer(...).is_valid for the fields the model follows:
\* tracking_status must be one of the choices when supplied; on creation
\* address is required; the nested customer e-mail must be an e-mail.
ValidStatus(tracking_status) ==
    tracking_status = None \/ tracking_status \in OrderTrackingStatusChoices

is_valid(customer, address, tracking_status, partial) ==
    /\ ValidStatus(tracking_status)
    /\ partial \/ address # None
    /\ customer # BadEmail

\* A serializer that writes the status only.
Updated_StatusOnly(inst, address, tracking_status) ==
    [inst EXCEPT !.tracking_status = IF tracking_status = None THEN @
                                     ELSE tracking_status]

\* The row a saved serializer writes: the instance with the supplied fields.
Updated(inst, address, tracking_status) ==
    [inst EXCEPT !.address = IF address = None THEN @ ELSE address,
                 !.tracking_status = IF tracking_status = None THEN @
                                     ELSE tracking_status]

\* Created without the model default: an absent tracking_status is stored
\* as it came.
Created_NoDefault(customer_id, address, tracking_status) ==
    [exists |-> TRUE, customer_details |-> customer_id, address |-> address,
     tracking_status |-> tracking_status]

\* OrderDetails(...) built by the serializer on creation: tracking_status
\* takes the model default when the payload leaves it out.
Created(customer_id, address, tracking_status) ==
    [exists |-> TRUE, customer_details |-> customer_id, address |-> address,
     tracking_status |-> IF tracking_status = None THEN PENDING
                         ELSE tracking_status]

\* WritableNestedModelSerializer.update_or_create_direct_relations for the
\* customer_details block (e-mail, and the row id it names, 0 for none): a
\* block that names the id of a stored row is saved onto that row, any other
\* block becomes a new row.  rows: the table afterwards; pk: the row the
\* order refers to.
update_or_create_direct_relations(custs, block) ==
    IF block.id \in 1..Len(custs)
    THEN [rows |-> [custs EXCEPT ![block.id] = block.email], pk |-> block.id]
    ELSE [rows |-> Append(custs, block.email), pk |-> Len(custs) + 1]

\* A foreign key that leaves the rows of a deleted order where they are.
Cascade_Keeping(rows, pk) == rows

\* Rows of OrderStatusHistory left after order pk is deleted (on_delete=CASCADE).
RECURSIVE Cascade(_, _)
Cascade(rows, pk) ==
    IF rows = <<>> THEN <<>>
    ELSE IF Head(rows).order = pk THEN Cascade(Tail(rows), pk)
    ELSE <<Head(rows)>> \o Cascade(Tail(rows), pk)

\* WebhookOrderListView.get: one order when an id is given, else the list.
Get(r) ==
    /\ Ready(r)
    /\ \E principal \in Principals : \E hdr \in Headers(principal) :
          LET adm == Admission(principal, hdr.customer_email, hdr.signature,
                               hdr.allow_request)
              this == Request("GET", adm)
          IN  /\ webhook_secret' = adm.secrets
              /\ IF adm.status # 0 THEN Respond(r, adm.status, this)
                 ELSE \E order_id \in RequestIds :
                        IF ~order_id.given THEN Respond(r, 200, this)
                        ELSE IF get_object(order_id, orders) = NoOrder
                        THEN Respond(r, 404, [this EXCEPT !.id = order_id.pk])
                        ELSE Respond(r, 200, [this EXCEPT !.id = order_id.pk])
    /\ UNCHANGED <<now, is_active, kyc, orderStore, verified, executed,
                 accountCalls>>

\* request.data of a POST: the customer block (by its e-mail; the requests
\* tried here name no customer id), the address and the tracking_status,
\* each possibly absent.  A request refused before
\* its body is read comes with a complete body or with an empty one.
Payloads(read) ==
    LET all == [customer : CustomerEmails \cup {None, BadEmail},
                address : Addresses \cup {None},
                tracking_status : OrderTrackingStatusChoices
                                  \cup {None, BogusStatus}]
    IN  IF read THEN all
        ELSE {d \in all : /\ d.tracking_status = None
                          /\ d.customer # BadEmail
                          /\ d.customer = None <=> d.address = None}

\* WebhookOrderListView.post up to the enqueue: verification,
\* serializer.is_valid and serializer.save: a fresh OrderCustomerDetails row
\* from the customer block, then the OrderDetails row.  Without a customer
\* block (the field is required=False) the insert violates NOT NULL on
\* customer_details: an IntegrityError, which leaves the view unhandled (500).
Post(r) ==
    /\ Ready(r)
    /\ nextId <= MaxOrders
    /\ \E principal \in Principals : \E hdr \in Headers(principal) :
          LET adm == Admission(principal, hdr.customer_email, hdr.signature,
                               hdr.allow_request)
          IN  \E data \in Payloads(adm.status = 0) :
          LET customer == data.customer
              address == data.address
              tracking_status == data.tracking_status
              this == [Request("POST", adm) EXCEPT
                          !.headers = [customer_email |-> hdr.customer_email,
                                       signature |-> hdr.signature],
                          !.validates =
                             is_valid(customer, address, tracking_status, FALSE),
                          !.valid =
                             /\ is_valid(customer, address, tracking_status, FALSE)
                             /\ customer # None]
          IN  /\ webhook_secret' = adm.secrets
              /\ IF adm.status # 0
                 THEN Respond(r, adm.status, this) /\ UNCHANGED orderStore
                 ELSE IF ~is_valid(customer, address, tracking_status, FALSE)
                     THEN Respond(r, 400, this) /\ UNCHANGED orderStore
                     ELSE IF customer = None
                     THEN Respond(r, 500, this) /\ UNCHANGED orderStore
                     ELSE LET saved == update_or_create_direct_relations(
                                       customers, [email |-> customer, id |-> 0])
                          IN
                          /\ customers' = saved.rows
                          /\ orders' = [orders EXCEPT ![nextId] =
                                Created(saved.pk, address, tracking_status)]
                          /\ nextId' = nextId + 1
                          /\ req' = [req EXCEPT ![r] =
                                [this EXCEPT !.pc = "post_enqueue",
                                             !.id = nextId,
                                             !.sent = tracking_status]]
                          /\ UNCHANGED history
    /\ UNCHANGED <<now, is_active, kyc, verified, executed,
                 accountCalls>>

\* WebhookOrderListView.post from the enqueue on: the confirmation task runs
\* at once and the response is 201 whatever the task did.
PostEnqueue(r) ==
    /\ At(r, "post_enqueue")
    /\ \E mail_ok \in BOOLEAN :
          LET run == enqueue(send_order_received_confirmation(
                                 req[r].id, orders, customers, mail_ok))
          IN  /\ history' = history \o run.rows
              /\ Respond(r, Response(201, run), [req[r] EXCEPT
                     !.rows = run.rows,
                     !.job = Job("order_received", req[r].id, None, run)])
    /\ UNCHANGED <<now, credentials, customers, orders, nextId, verified, executed,
                 accountCalls>>

\* WebhookOrderListView.patch up to get_object(request.data.get("id")).
Patch(r) ==
    /\ Ready(r)
    /\ \E principal \in Principals : \E hdr \in Headers(principal) :
          LET adm == Admission(principal, hdr.customer_email, hdr.signature,
                               hdr.allow_request)
              this == Request("PATCH", adm)
          IN  /\ webhook_secret' = adm.secrets
              /\ IF adm.status # 0 THEN Respond(r, adm.status, this)
                 ELSE \E order_id \in RequestIds :
                     LET order_instance == get_object(order_id, orders)
                     IN  IF order_instance = NoOrder
                         THEN Respond(r, 404, [this EXCEPT !.id = order_id.pk])
                         ELSE req' = [req EXCEPT ![r] =
                                 [this EXCEPT !.pc = "patch_save",
                                              !.id = order_id.pk,
                                              !.inst = order_instance]]
    /\ UNCHANGED <<now, is_active, kyc, orderStore, verified, executed,
                 accountCalls>>

\* WebhookOrderListView.patch from is_valid on.  serializer.save() sets the
\* supplied fields on the instance read by get_object and calls
\* Model.save(), which writes every column of that instance: an UPDATE by
\* primary key and, when the UPDATE matches no row, an INSERT.  Then the
\* status task is enqueued, whatever the payload held, and runs at once.
\* was: the stored tracking_status just before the write.  An address equal
\* to the one read writes what leaving it out writes, so it is not tried.
PatchSave(r) ==
    /\ At(r, "patch_save")
    /\ \E address \in (Addresses \ {req[r].inst.address}) \cup {None},
          tracking_status \in OrderTrackingStatusChoices \cup {None, BogusStatus} :
          LET pk == req[r].id
              row == Updated(req[r].inst, address, tracking_status)
              was == IF orders[pk] = NoOrder THEN None
                     ELSE orders[pk].tracking_status
              stored == [orders EXCEPT ![pk] = row]
          IN  IF ~is_valid(None, address, tracking_status, TRUE)
              THEN /\ Respond(r, 400, req[r])
                   /\ UNCHANGED <<orders, history>>
              ELSE \E run \in {enqueue(send_order_status_update_email(
                                   pk, stored, customers, mail_ok)) :
                               mail_ok \in BOOLEAN} :
                   /\ orders' = stored
                   /\ history' = history \o run.rows
                   /\ Respond(r, Response(200, run), [req[r] EXCEPT
                         !.address = address,
                         !.sent = tracking_status,
                         !.was = was,
                         !.became = row.tracking_status,
                         !.rows = run.rows,
                         !.job = Job("status_update", pk, None, run)])
    /\ UNCHANGED <<now, credentials, customers, nextId, verified, executed,
                 accountCalls>>

\* WebhookOrderListView.delete up to the delete: get_object, then the
\* customer's e-mail read through the order's foreign key.
Delete(r) ==
    /\ Ready(r)
    /\ \E principal \in Principals : \E hdr \in Headers(principal) :
          LET adm == Admission(principal, hdr.customer_email, hdr.signature,
                               hdr.allow_request)
              this == Request("DELETE", adm)
          IN  /\ webhook_secret' = adm.secrets
              /\ IF adm.status # 0 THEN Respond(r, adm.status, this)
                 ELSE \E order_id \in RequestIds :
                     LET order_detail == get_object(order_id, orders)
                     IN  IF order_detail = NoOrder
                         THEN Respond(r, 404, [this EXCEPT !.id = order_id.pk])
                         ELSE req' = [req EXCEPT ![r] =
                                 [this EXCEPT
                                     !.pc = "delete_do", !.id = order_id.pk,
                                     !.email =
                                       customers[order_detail.customer_details]]]
    /\ UNCHANGED <<now, is_active, kyc, orderStore, verified, executed,
                 accountCalls>>

\* WebhookOrderListView.delete from order_detail.delete() on: the row and,
\* by cascade, its history rows go (deleting a row that is already gone
\* deletes nothing and raises nothing); the deletion task is enqueued with
\* the e-mail read before and runs at once.
DeleteDo(r) ==
    /\ At(r, "delete_do")
    /\ \E mail_ok \in BOOLEAN :
          LET order_id == req[r].id
              customer_email == req[r].email
              run == enqueue(send_order_deleted_email(order_id, customer_email,
                                                      mail_ok))
          IN  /\ orders' = [orders EXCEPT ![order_id] = NoOrder]
              /\ history' = Cascade(history, order_id) \o run.rows
              /\ Respond(r, Response(204, run), [req[r] EXCEPT
                     !.rows = run.rows,
                     !.removed = Len(history) - Len(Cascade(history, order_id)),
                     !.job = Job("order_deleted", order_id, customer_email, run)])
    /\ UNCHANGED <<now, credentials, customers, nextId, verified, executed,
                 accountCalls>>

\* The worker takes the next request.
Retire(r) ==
    /\ req[r].pc = "done"
    /\ req' = [req EXCEPT ![r] = IdleReq]
    /\ UNCHANGED <<now, db, verified, executed,
                 accountCalls>>

\* OrderStatusHistoryAdmin: staff adds a history row for a stored order.
\* The insert is one statement, checked against the foreign key.
AddHistory(o) ==
    /\ Quiet
    /\ orders[o] # NoOrder
    /\ \E row \in StaffRows :
          /\ row.order = o
          /\ \A i \in 1..Len(history) : history[i] # row
          /\ history' = Append(history, row)
    /\ UNCHANGED <<now, credentials, customers, orders, nextId, req, verified, executed,
                 accountCalls>>

\* ------------------------------------------------------------- accounts
\* The number of WebhookSecret rows per account when each account has the
\* row webhook_secret holds and no other.
RowCount(secrets) ==
    [u \in Users |-> IF secrets[u] = NoSecret THEN 0 ELSE 1]

\* activate_user_account: the OTP was verified.
ActivateUserAccount(u) ==
    /\ Quiet
    /\ is_active' = [is_active EXCEPT ![u] = TRUE]
    /\ UNCHANGED <<now, kyc, webhook_secret, orderStore, req, verified, executed,
                 accountCalls>>

\* generate_webhook_secret_on_kyc_approval (post_save of UserKYC): what the
\* handler leaves in WebhookSecret and User.is_active for account u.
generate_webhook_secret_on_kyc_approval(u, approved, secrets, act, clock) ==
    IF ~approved THEN [secrets |-> secrets, act |-> act]
    ELSE IF secrets[u] # NoSecret
    THEN [secrets |-> IF is_expired(secrets[u], clock)
                      THEN [secrets EXCEPT ![u] = regenerate(@, clock)]
                      ELSE secrets,
          act |-> act]
    ELSE [secrets |-> [secrets EXCEPT ![u] = create_webhook_secret(clock)],
          act |-> [act EXCEPT ![u] = TRUE]]

\* UserKYCView.post: an authenticated account without a KYC row submits
\* one; approved is read-only in the serializer, so the row starts
\* unapproved.  post_save runs the signal handler.
SubmitKYC(u) ==
    /\ Quiet
    /\ is_authenticated(u)
    /\ kyc[u] = NoKYC
    /\ LET after == generate_webhook_secret_on_kyc_approval(
                        u, FALSE, webhook_secret, is_active, now)
       IN  /\ kyc' = [kyc EXCEPT ![u] = [exists |-> TRUE, approved |-> FALSE]]
           /\ webhook_secret' = after.secrets
           /\ is_active' = after.act
           /\ secret_rows' = RowCount(after.secrets)
    /\ UNCHANGED <<now, orderStore, req, verified, executed, calls, otp_in_db>>

\* UserKYCAdmin: staff saves the account's KYC row with approved set or
\* cleared.  post_save runs the signal handler.
SaveKYC(u) ==
    /\ Quiet
    /\ kyc[u] # NoKYC
    /\ \E approved \in BOOLEAN :
          LET after == generate_webhook_secret_on_kyc_approval(
                           u, approved, webhook_secret, is_active, now)
          IN  /\ kyc' = [kyc EXCEPT ![u].approved = approved]
              /\ webhook_secret' = after.secrets
              /\ is_active' = after.act
              /\ secret_rows' = RowCount(after.secrets)
    /\ UNCHANGED <<now, orderStore, req, verified, executed, calls, otp_in_db>>

\* Time passes.
Tick ==
    /\ Quiet
    /\ now + TickDays <= MaxClock
    /\ now' = now + TickDays
    /\ UNCHANGED <<db, req, verified, executed,
                 accountCalls>>

\* ------------------------------------------------------------- system
NotVerifying == [outcome |-> None]
NotExecuting == [status |-> None]
\* No call of the account-only specifications is under way; the row
\* counts follow the WebhookSecret rows, and no OTP is stored.
\* An OTP row: is_used, and the activation jobs enqueued for it so far.
OTPCodes == 1..MaxOTPs
NoOTP == [exists |-> FALSE, is_used |-> FALSE, activations |-> 0]
\* op: the operation called; user: its account; approved: the value a KYC
\* save writes; was: UserKYC.approved before the save; before: the
\* account's credential when the call began; seen: the row the call
\* read; secret, created: what get_or_create_webhook_secret returned;
\* error: the exception that left the call; code, status, enqueued: the
\* code an OTP verification was sent, its answer and the activation jobs it
\* enqueued.
IdleCall ==
    [pc |-> "idle", op |-> None, user |-> None, approved |-> FALSE,
     was |-> FALSE, before |-> NoSecret, seen |-> NoSecret, secret |-> None,
     created |-> FALSE, error |-> None, code |-> None, status |-> 0,
     enqueued |-> 0]
NoAccountCalls ==
    /\ calls = [w \in Slots |-> IdleCall]
    /\ secret_rows = RowCount(webhook_secret)
    /\ otp_in_db = [u \in Users |-> [c \in OTPCodes |-> NoOTP]]

Init ==
    /\ now = 0
    /\ is_active = [u \in Users |-> FALSE]
    /\ kyc = [u \in Users |-> NoKYC]
    /\ webhook_secret = [u \in Users |-> NoSecret]
    /\ customers = <<>>
    /\ orders = [o \in OrderIds |-> NoOrder]
    /\ nextId = 1
    /\ history = <<>>
    /\ req = [r \in Slots |-> IdleReq]
    /\ verified = NotVerifying
    /\ executed = NotExecuting
    /\ NoAccountCalls

Next ==
    \/ \E r \in Slots : Get(r)
    \/ \E r \in Slots : Post(r)
    \/ \E r \in Slots : PostEnqueue(r)
    \/ \E r \in Slots : Patch(r)
    \/ \E r \in Slots : PatchSave(r)
    \/ \E r \in Slots : Delete(r)
    \/ \E r \in Slots : DeleteDo(r)
    \/ \E r \in Slots : Retire(r)
    \/ \E o \in OrderIds : AddHistory(o)
    \/ \E u \in Users : ActivateUserAccount(u)
    \/ \E u \in Users : SubmitKYC(u)
    \/ \E u \in Users : SaveKYC(u)
    \/ Tick

Spec == Init /\ [][Next]_vars

\* ------------------------------------------------------------- verification only
\* verify_webhook_signature as a function of its inputs: the account's
\* is_active flag, its WebhookSecret row as the signal handler leaves it
\* (created at day 0, or regenerated once at day TickDays), the two headers
\* and the clock.  A signature is any string of at most MaxSigLen characters
\* over the prefix character, two token characters and one non-ASCII one.
SigChars == {-1, 0, 1, 2}
RECURSIVE Strings(_)
Strings(n) ==
    IF n = 0 THEN {<<>>}
    ELSE LET shorter == Strings(n - 1)
         IN  shorter \cup {Append(s, c) : s \in {t \in shorter : Len(t) = n - 1},
                                           c \in SigChars}
StoredSecrets ==
    {NoSecret, create_webhook_secret(0),
     regenerate(create_webhook_secret(0), TickDays)}
VerifyClocks ==
    {0, SecretLifetimeDays - 1, SecretLifetimeDays, SecretLifetimeDays + 1,
     TickDays + SecretLifetimeDays, TickDays + SecretLifetimeDays + 1}

InitVerify ==
    /\ now \in VerifyClocks
    /\ is_active \in [Users -> BOOLEAN]
    /\ kyc = [u \in Users |-> NoKYC]
    /\ webhook_secret \in [Users -> StoredSecrets]
    /\ customers = <<>>
    /\ orders = [o \in OrderIds |-> NoOrder]
    /\ nextId = 1
    /\ history = <<>>
    /\ req = [r \in Slots |-> IdleReq]
    /\ verified \in [customer_email : AccountHeaders,
                     signature : Strings(MaxSigLen),
                     outcome : {None}]
    /\ executed = NotExecuting
    /\ NoAccountCalls

\* One call of verify_webhook_signature on the drawn inputs.
VerifyCall ==
    /\ verified.outcome = None
    /\ verified' = [verified EXCEPT !.outcome =
            verify_webhook_signature(verified.customer_email,
                                     verified.signature,
                                     is_active, webhook_secret, now)]
    /\ UNCHANGED <<now, db, req, executed, accountCalls>>

NextVerify == VerifyCall

SpecVerify == InitVerify /\ [][NextVerify]_vars

\* ------------------------------------------------------------- tasks only
\* One notification job from its enqueue on, as a function of the store it
\* finds: ids below nextId were issued, each with its own customer row, and
\* the order of an issued id is stored or was deleted.  failing: how many
\* send_mail calls in a row raise before one returns; the task's only call
\* is the first.
TaskKinds == {"order_received", "status_update", "order_deleted"}
StoredOrders ==
    [exists : {TRUE}, customer_details : OrderIds, address : Addresses,
     tracking_status : OrderTrackingStatusChoices]

InitTasks ==
    /\ now = 0
    /\ is_active = [u \in Users |-> FALSE]
    /\ kyc = [u \in Users |-> NoKYC]
    /\ webhook_secret = [u \in Users |-> NoSecret]
    /\ nextId \in 1..(MaxOrders + 1)
    /\ customers \in [1..(nextId - 1) -> CustomerEmails]
    /\ orders \in [OrderIds -> StoredOrders \cup {NoOrder}]
    /\ \A o \in OrderIds :
          orders[o] # NoOrder => o < nextId /\ orders[o].customer_details = o
    /\ history = <<>>
    /\ req = [r \in Slots |-> IdleReq]
    /\ verified = NotVerifying
    /\ executed \in [kind : TaskKinds, order_id : OrderIds,
                     customer_email : CustomerEmails,
                     failing : 0..MaxFailing, status : {"NEW"},
                     mail_to : {None}, named : {None}, attempts : {0},
                     executions : {0}]
    /\ NoAccountCalls

\* What one execution of the job's task does on the store as it is.
TaskRun(job, ords, custs) ==
    LET mail_ok == job.failing = 0
    IN  IF job.kind = "order_received"
        THEN send_order_received_confirmation(job.order_id, ords, custs, mail_ok)
        ELSE IF job.kind = "status_update"
        THEN send_order_status_update_email(job.order_id, ords, custs, mail_ok)
        ELSE send_order_deleted_email(job.order_id, job.customer_email, mail_ok)

\* The handler calls enqueue on the job it built.
EnqueueTask ==
    /\ executed.status = "NEW"
    /\ LET run == enqueue(TaskRun(executed, orders, customers))
       IN  /\ history' = history \o run.rows
           /\ executed' = [executed EXCEPT
                   !.status = run.result, !.mail_to = run.mail_to,
                   !.named = run.named, !.attempts = run.attempts,
                   !.executions = run.executions]
    /\ UNCHANGED <<now, credentials, customers, orders, nextId, req, verified,
                 accountCalls>>

NextTasks == EnqueueTask

\* The handler that built a job goes on to its enqueue call.
SpecTasks == InitTasks /\ [][NextTasks]_vars /\ WF_vars(EnqueueTask)

\* ------------------------------------------------------------- credentials only
\* KYC saves and get_or_create_webhook_secret calls for an active account,
\* one database statement per step, so that two calls interleave.  The
\* account starts without a credential, with no KYC row or an unapproved
\* one.

\* A plain ForeignKey: any number of rows per account.
OneToOneField_ForeignKey(rows) == FALSE

\* WebhookSecret.user is a OneToOneField: the column is unique, and the
\* insert of a row for an account that has rows raises IntegrityError.
OneToOneField(rows) == rows > 0

InitSecrets ==
    /\ now = 0
    /\ is_active = [u \in Users |-> TRUE]
    /\ kyc \in [Users -> {NoKYC, [exists |-> TRUE, approved |-> FALSE]}]
    /\ webhook_secret = [u \in Users |-> NoSecret]
    /\ customers = <<>>
    /\ orders = [o \in OrderIds |-> NoOrder]
    /\ nextId = 1
    /\ history = <<>>
    /\ req = [r \in Slots |-> IdleReq]
    /\ verified = NotVerifying
    /\ executed = NotExecuting
    /\ NoAccountCalls

Calling(w, pc) == calls[w].pc = pc
EndCall(w, fields) ==
    calls' = [calls EXCEPT ![w] = [fields EXCEPT !.pc = "done"]]

\* WebhookSecret.objects.create(user=u, ...): the insert, or IntegrityError.
\* The first row of an account is the one filter(user=u).first() returns.
CreateSecret(w, u, fields) ==
    IF OneToOneField(secret_rows[u])
    THEN /\ EndCall(w, [fields EXCEPT !.error = "IntegrityError"])
         /\ UNCHANGED <<webhook_secret, secret_rows>>
    ELSE LET row == create_webhook_secret(now)
         IN  /\ webhook_secret' =
                    IF secret_rows[u] = 0
                    THEN [webhook_secret EXCEPT ![u] = row] ELSE webhook_secret
             /\ secret_rows' = [secret_rows EXCEPT ![u] = @ + 1]
             /\ EndCall(w, [fields EXCEPT !.secret = row.secret_key,
                                          !.created = TRUE])

\* webhook_secret.regenerate() on the instance read earlier: save() writes
\* the three fields regenerate has just set onto the account's row; the
\* fresh token is numbered after the stored one.
RegenerateSecret(w, u, fields) ==
    LET row == regenerate(webhook_secret[u], now)
    IN  /\ webhook_secret' = [webhook_secret EXCEPT ![u] = row]
        /\ EndCall(w, [fields EXCEPT !.secret = row.secret_key])
        /\ UNCHANGED secret_rows

\* UserKYCAdmin saves the account's KYC row; post_save calls the handler,
\* which returns at once when the row is not approved.
KYCSave(w, u) ==
    /\ Calling(w, "idle")
    /\ kyc[u] # NoKYC
    /\ \E approved \in BOOLEAN :
          /\ kyc' = [kyc EXCEPT ![u].approved = approved]
          /\ calls' = [calls EXCEPT ![w] =
                [IdleCall EXCEPT !.pc = IF approved THEN "signal_read" ELSE "done",
                                 !.op = "save", !.user = u,
                                 !.approved = approved,
                                 !.was = kyc[u].approved,
                                 !.before = webhook_secret[u]]]
    /\ UNCHANGED <<now, is_active, webhook_secret, orderStore, req, verified,
                   executed, secret_rows, otp_in_db>>

\* A handler that goes on to its write whatever it read: every approved
\* save regenerates the credential.
SignalRead_Regenerating(w) ==
    /\ Calling(w, "signal_read")
    /\ calls' = [calls EXCEPT ![w] =
          [calls[w] EXCEPT !.seen = webhook_secret[calls[w].user],
                           !.pc = "signal_write"]]
    /\ UNCHANGED <<now, db, req, verified, executed, secret_rows, otp_in_db>>

\* The handler's WebhookSecret.objects.filter(user=...).first() and its
\* is_expired() test: a credential that is not expired ends the handler.
SignalRead(w) ==
    /\ Calling(w, "signal_read")
    /\ LET seen == webhook_secret[calls[w].user]
           this == [calls[w] EXCEPT !.seen = seen]
       IN  IF seen # NoSecret /\ ~is_expired(seen, now)
           THEN EndCall(w, this)
           ELSE calls' = [calls EXCEPT ![w] = [this EXCEPT !.pc = "signal_write"]]
    /\ UNCHANGED <<now, db, req, verified, executed, secret_rows, otp_in_db>>

\* The handler's write: regenerate() of the expired credential it read, or
\* instance.user.save() with is_active set and the creation of a credential.
SignalWrite(w) ==
    /\ Calling(w, "signal_write")
    /\ LET u == calls[w].user
       IN  IF calls[w].seen # NoSecret
           THEN RegenerateSecret(w, u, calls[w]) /\ UNCHANGED is_active
           ELSE /\ is_active' = [is_active EXCEPT ![u] = TRUE]
                /\ CreateSecret(w, u, calls[w])
    /\ UNCHANGED <<now, kyc, orderStore, req, verified, executed, otp_in_db>>

\* get_or_create_webhook_secret without the UserKYC lookup: every account
\* goes on to the credential.
GetOrCreate_IgnoringKYC(w, u) ==
    /\ Calling(w, "idle")
    /\ calls' = [calls EXCEPT ![w] =
          [IdleCall EXCEPT !.pc = "get_read", !.op = "get", !.user = u,
                           !.was = kyc[u].approved,
                           !.before = webhook_secret[u]]]
    /\ UNCHANGED <<now, db, req, verified, executed, secret_rows, otp_in_db>>

\* get_or_create_webhook_secret up to UserKYC.objects.get(user=user,
\* approved=True): (None, False) without an approved KYC row.
GetOrCreate(w, u) ==
    /\ Calling(w, "idle")
    /\ LET this == [IdleCall EXCEPT !.op = "get", !.user = u,
                                    !.was = kyc[u].approved,
                                    !.before = webhook_secret[u]]
       IN  IF kyc[u].approved
           THEN calls' = [calls EXCEPT ![w] = [this EXCEPT !.pc = "get_read"]]
           ELSE EndCall(w, this)
    /\ UNCHANGED <<now, db, req, verified, executed, secret_rows, otp_in_db>>

\* Its WebhookSecret.objects.filter(user=user).first() and is_expired()
\* test: a credential that is not expired is returned as it was read.
GetRead(w) ==
    /\ Calling(w, "get_read")
    /\ LET seen == webhook_secret[calls[w].user]
           this == [calls[w] EXCEPT !.seen = seen]
       IN  IF seen # NoSecret /\ ~is_expired(seen, now)
           THEN EndCall(w, [this EXCEPT !.secret = seen.secret_key])
           ELSE calls' = [calls EXCEPT ![w] = [this EXCEPT !.pc = "get_write"]]
    /\ UNCHANGED <<now, db, req, verified, executed, secret_rows, otp_in_db>>

\* Its write: regenerate() of the expired credential it read, or the
\* creation of a credential.
GetWrite(w) ==
    /\ Calling(w, "get_write")
    /\ LET u == calls[w].user
       IN  IF calls[w].seen # NoSecret
           THEN RegenerateSecret(w, u, calls[w])
           ELSE CreateSecret(w, u, calls[w])
    /\ UNCHANGED <<now, is_active, kyc, orderStore, req, verified, executed,
                   otp_in_db>>

\* The caller has its answer; the worker takes the next call.
EndOfCall(w) ==
    /\ Calling(w, "done")
    /\ calls' = [calls EXCEPT ![w] = IdleCall]
    /\ UNCHANGED <<now, db, req, verified, executed, secret_rows, otp_in_db>>

NextSecrets ==
    \/ \E w \in Slots, u \in Users : KYCSave(w, u)
    \/ \E w \in Slots : SignalRead(w)
    \/ \E w \in Slots : SignalWrite(w)
    \/ \E w \in Slots, u \in Users : GetOrCreate(w, u)
    \/ \E w \in Slots : GetRead(w)
    \/ \E w \in Slots : GetWrite(w)
    \/ \E w \in Slots : EndOfCall(w)
    \/ Tick

SpecSecrets == InitSecrets /\ [][NextSecrets]_vars

\* ------------------------------------------------------------- OTP only
\* OTP verification for a registered, inactive account, one database
\* statement per step.  RegisterView has issued the account's first OTP;
\* codes are numbered in the order issued.

\* OTP.objects.filter(user__email=email).last(): the code of the row issued
\* last, 0 when the account has none.
last(rows) ==
    IF \E c \in OTPCodes : rows[c].exists
    THEN CHOOSE c \in OTPCodes :
            rows[c].exists /\ \A d \in OTPCodes : rows[d].exists => d <= c
    ELSE 0

InitOTP ==
    /\ now = 0
    /\ is_active = [u \in Users |-> FALSE]
    /\ kyc = [u \in Users |-> NoKYC]
    /\ webhook_secret = [u \in Users |-> NoSecret]
    /\ customers = <<>>
    /\ orders = [o \in OrderIds |-> NoOrder]
    /\ nextId = 1
    /\ history = <<>>
    /\ req = [r \in Slots |-> IdleReq]
    /\ verified = NotVerifying
    /\ executed = NotExecuting
    /\ calls = [w \in Slots |-> IdleCall]
    /\ secret_rows = RowCount(webhook_secret)
    /\ otp_in_db = [u \in Users |-> [c \in OTPCodes |->
                       IF c = 1 THEN [NoOTP EXCEPT !.exists = TRUE] ELSE NoOTP]]

\* RequestOTPView.post for an existing account: generate_otp creates a
\* fresh OTP row while the account is inactive.
RequestOTP(u) ==
    /\ ~is_active[u]
    /\ last(otp_in_db[u]) < MaxOTPs
    /\ otp_in_db' = [otp_in_db EXCEPT ![u][last(otp_in_db[u]) + 1] =
                        [NoOTP EXCEPT !.exists = TRUE]]
    /\ UNCHANGED <<now, db, req, verified, executed, calls, secret_rows>>

\* VerifyOTPView.post up to the is_used test on the row it read: 404
\* without a row, 400 for another code than the row's, Http404 for a used
\* row.  Code 0 is a code never issued.
VerifyOTP(w, u) ==
    /\ Calling(w, "idle")
    /\ \E otp \in OTPCodes \cup {0} :
          LET code == last(otp_in_db[u])
              this == [IdleCall EXCEPT !.op = "verify", !.user = u, !.code = otp]
          IN  IF code = 0 THEN EndCall(w, [this EXCEPT !.status = 404])
              ELSE IF otp # code THEN EndCall(w, [this EXCEPT !.status = 400])
              ELSE IF otp_in_db[u][code].is_used
              THEN EndCall(w, [this EXCEPT !.status = 404])
              ELSE calls' = [calls EXCEPT ![w] = [this EXCEPT !.pc = "otp_save"]]
    /\ UNCHANGED <<now, db, req, verified, executed, secret_rows, otp_in_db>>

\* VerifyOTPView.post from otp_in_db.is_used = True on: the row read is
\* saved as used, activate_user_account is enqueued and, on the immediate
\* backend, activates the account before the view answers 200.
VerifyOTPSave(w) ==
    /\ Calling(w, "otp_save")
    /\ LET u == calls[w].user
           code == calls[w].code
       IN  /\ otp_in_db' = [otp_in_db EXCEPT ![u][code] =
                   [@ EXCEPT !.is_used = TRUE, !.activations = @ + 1]]
           /\ is_active' = [is_active EXCEPT ![u] = TRUE]
           /\ EndCall(w, [calls[w] EXCEPT !.status = 200, !.enqueued = 1])
    /\ UNCHANGED <<now, kyc, webhook_secret, orderStore, req, verified, executed,
                   secret_rows>>

NextOTP ==
    \/ \E u \in Users : RequestOTP(u)
    \/ \E w \in Slots, u \in Users : VerifyOTP(w, u)
    \/ \E w \in Slots : VerifyOTPSave(w)
    \/ \E w \in Slots : EndOfCall(w)

SpecOTP == InitOTP /\ [][NextOTP]_vars

\* ------------------------------------------------------------- serializer only
\* OrderDetailSerializer(data=...).save() as a function of the customer
\* table it finds and of the customer block it is given.  Rows already
\* stored come from earlier orders (deleting an order leaves its customer
\* row) or from the admin site.
StoredEmails == CustomerEmails \cup {"c0"}
CustomerBlocks == [email : CustomerEmails, id : 0..MaxCustomers]

InitCreate ==
    /\ now = 0
    /\ is_active = [u \in Users |-> FALSE]
    /\ kyc = [u \in Users |-> NoKYC]
    /\ webhook_secret = [u \in Users |-> NoSecret]
    /\ nextId = 1
    /\ \E n \in 0..MaxCustomers : customers \in [1..n -> StoredEmails]
    /\ orders = [o \in OrderIds |-> NoOrder]
    /\ history = <<>>
    /\ req = [r \in Slots |-> IdleReq]
    /\ verified = NotVerifying
    /\ executed = NotExecuting
    /\ NoAccountCalls

\* serializer.is_valid() and serializer.save() on a payload with a customer
\* block: the nested block first, then the order row that refers to it.
SerializerSave ==
    /\ nextId <= MaxOrders
    /\ \E block \in CustomerBlocks, address \in Addresses,
          tracking_status \in OrderTrackingStatusChoices \cup {None} :
          LET saved == update_or_create_direct_relations(customers, block)
          IN  /\ is_valid(block.email, address, tracking_status, FALSE)
              /\ customers' = saved.rows
              /\ orders' = [orders EXCEPT ![nextId] =
                               Created(saved.pk, address, tracking_status)]
              /\ nextId' = nextId + 1
    /\ UNCHANGED <<now, credentials, history, req, verified, executed,
                 accountCalls>>

NextCreate == SerializerSave

SpecCreate == InitCreate /\ [][NextCreate]_vars

\* ------------------------------------------------------------- properties
\* Worker r takes up a request in this step (authentication, permission and
\* verification run in it).
Admitted(r) == req[r].pc = "idle" /\ req'[r].pc # "idle"
\* Worker r answers in this step.
Answers(r) == req[r].pc # "done" /\ req'[r].pc = "done"
\* The history rows of order o, oldest first.
HistoryOf(h, o) == SelectSeq(h, LAMBDA row : row.order = o)
\* Every stored order holds one of the four statuses.
StatusInChoices(ords) ==
    \A o \in OrderIds :
        ords[o] # NoOrder => ords[o].tracking_status \in OrderTrackingStatusChoices
\* An answered PATCH that wrote order o.
PatchAnswered(r) ==
    req[r].pc = "done" /\ req[r].method = "PATCH" /\ req[r].status = 200

\* C1 (as stated): every stored order's tracking_status is one of the four
\* choices in every state, and the order a create request has just stored
\* holds PENDING.
C1_CreatedHoldsPending ==
    [][/\ StatusInChoices(orders')
       /\ nextId' # nextId => orders'[nextId].tracking_status = PENDING]_vars

\* C1 (amended): every stored order's tracking_status is one of the four
\* choices in every state, and the order a create request has just stored
\* holds the tracking_status of the payload when the payload has one and
\* PENDING when it has none.
C1_CreatedHoldsPayloadOrPending ==
    [][/\ StatusInChoices(orders')
       /\ \A r \in Slots :
            req[r].pc = "idle" /\ req'[r].pc = "post_enqueue" =>
                /\ nextId' = nextId + 1
                /\ req'[r].id = nextId
                /\ orders'[nextId].tracking_status =
                      IF req'[r].sent = None THEN PENDING ELSE req'[r].sent
       /\ nextId' # nextId =>
            \E r \in Slots : req[r].pc = "idle" /\ req'[r].pc = "post_enqueue"]_vars

\* C1 witness: a create request whose payload had no tracking_status has
\* stored its order, which holds PENDING.
C1_Witness ==
    \E r \in Slots :
        /\ req[r].pc = "post_enqueue"
        /\ req[r].sent = None
        /\ orders[req[r].id] # NoOrder
        /\ orders[req[r].id].tracking_status = PENDING

\* C2 (as stated): an answered update that changed the stored
\* tracking_status of an existing order added exactly one history row, for
\* that order and with the new status, and enqueued exactly one
\* status-update job for that order.
C2_ChangeRecordsOneRowOneJob ==
    \A r \in Slots :
        PatchAnswered(r) /\ req[r].was # None /\ req[r].was # req[r].became =>
            /\ req[r].rows = <<[order |-> req[r].id, status |-> req[r].became]>>
            /\ req[r].job.kind = "status_update"
            /\ req[r].job.order_id = req[r].id

\* C3 (as stated): an answered update of an existing order that left the
\* stored tracking_status as it was added no history row and enqueued no job.
C3_NoChangeNoRowNoJob ==
    \A r \in Slots :
        PatchAnswered(r) /\ req[r].was # None /\ req[r].was = req[r].became =>
            /\ req[r].rows = <<>>
            /\ req[r].job = NoJob

\* C3 (amended): an answered update of an existing order that left the
\* stored tracking_status as it was added no history row and enqueued
\* exactly one status-update job, for that order.
C3_NoChangeNoRowOneJob ==
    \A r \in Slots :
        PatchAnswered(r) /\ req[r].was # None /\ req[r].was = req[r].became =>
            /\ req[r].rows = <<>>
            /\ req[r].job.kind = "status_update"
            /\ req[r].job.order_id = req[r].id

\* C3 witness: an update that supplied no tracking_status was answered 200
\* and the order still holds the status it held.
C3_Witness ==
    \E r \in Slots :
        /\ PatchAnswered(r)
        /\ req[r].sent = None
        /\ req[r].was = req[r].became
        /\ orders[req[r].id].tracking_status = req[r].was
        /\ req[r].job.kind = "status_update"

\* C4 (as stated): the read-old-status .. write sequence of an update is
\* atomic: two updates of the same order are never both between their read
\* and their write, and so never both hold the same old status.
C4_UpdatesAtomic ==
    \A r1, r2 \in Slots :
        /\ r1 # r2
        /\ req[r1].pc = "patch_save"
        /\ req[r2].pc = "patch_save"
        /\ req[r1].id = req[r2].id
        => req[r1].inst.tracking_status # req[r2].inst.tracking_status

\* C5 (as stated): history is append-only and follows effective
\* transitions: a step that stores a new order leaves it without history;
\* a step that changes an existing order's tracking_status appends exactly
\* one row to its history; any other step leaves the history of an existing
\* order as it is.
C5_HistoryFollowsTransitions ==
    [][\A o \in OrderIds :
         /\ orders[o] = NoOrder /\ orders'[o] # NoOrder =>
                HistoryOf(history', o) = <<>>
         /\ orders[o] # NoOrder /\ orders'[o] # NoOrder =>
                IF orders'[o].tracking_status # orders[o].tracking_status
                THEN HistoryOf(history', o) =
                        Append(HistoryOf(history, o),
                               [order |-> o,
                                status |-> orders'[o].tracking_status])
                ELSE HistoryOf(history', o) = HistoryOf(history, o)]_vars

\* The verification call that was made concerns an active account whose
\* credential is stored and active.
VerifiedActiveCredential ==
    /\ verified.outcome # None
    /\ verified.customer_email \in Users
    /\ is_active[verified.customer_email]
    /\ webhook_secret[verified.customer_email] # NoSecret
    /\ webhook_secret[verified.customer_email].is_active
\* The expiry time of that credential has passed.
VerifiedPastExpiry ==
    LET ws == webhook_secret[verified.customer_email]
    IN  ws.expires_at # <<>> /\ now > ws.expires_at[1]
\* The supplied signature equals the stored secret.
VerifiedSignatureEqual ==
    verified.signature = webhook_secret[verified.customer_email].secret_key

\* C6 (as stated): for an active account with an active credential,
\* verification succeeds when the signature equals the secret and the
\* credential is not expired, fails with CredentialExpired when it equals the
\* secret and the expiry time has passed, and fails with SignatureMismatch
\* whenever the signature differs from the secret, whatever its length.
C6_MismatchWhateverLength ==
    VerifiedActiveCredential =>
        /\ VerifiedSignatureEqual /\ ~VerifiedPastExpiry =>
                verified.outcome = "Authenticated"
        /\ VerifiedSignatureEqual /\ VerifiedPastExpiry =>
                verified.outcome = "CredentialExpired"
        /\ ~VerifiedSignatureEqual => verified.outcome = "SignatureMismatch"

\* C6 (amended): for an active account with an active credential,
\* verification succeeds when the signature equals the secret and the
\* credential is not expired; it fails with CredentialExpired whenever a
\* signature is supplied and the expiry time has passed, equal to the secret
\* or not; it fails with SignatureMismatch when the credential is not
\* expired and the signature is a non-empty ASCII string that differs from
\* the secret, whatever its length; an empty signature fails as a missing
\* header, and a signature with a non-ASCII character checked against an
\* unexpired credential fails with a TypeError.
C6_VerificationOutcome ==
    VerifiedActiveCredential =>
        IF verified.signature = <<>>
        THEN verified.outcome = "MissingCredentialHeader"
        ELSE IF VerifiedPastExpiry
        THEN verified.outcome = "CredentialExpired"
        ELSE IF VerifiedSignatureEqual
        THEN verified.outcome = "Authenticated"
        ELSE IF \E i \in 1..Len(verified.signature) : verified.signature[i] < 0
        THEN verified.outcome = "TypeError"
        ELSE verified.outcome = "SignatureMismatch"

\* C6 witness: a signature longer than the stored secret was checked
\* against an unexpired credential and failed with SignatureMismatch.
C6_Witness ==
    /\ VerifiedActiveCredential
    /\ ~VerifiedPastExpiry
    /\ Len(verified.signature) >
          Len(webhook_secret[verified.customer_email].secret_key)
    /\ verified.outcome = "SignatureMismatch"

\* C7: a request whose webhook signature verification fails is answered in
\* the same step, before any persistence: no Customer, Order or history row
\* is created, modified or deleted and no job is enqueued.
C7_FailedVerificationPersistsNothing ==
    [][\A r \in Slots :
         Admitted(r) /\ req'[r].auth \notin {None, "Authenticated"} =>
            /\ req'[r].pc = "done"
            /\ UNCHANGED orderStore
            /\ req'[r].job = NoJob
            /\ req'[r].rows = <<>>]_vars

\* C7 witness: a DELETE with a mismatching signature was refused while an
\* order is stored.
C7_Witness ==
    \E r \in Slots :
        /\ req[r].pc = "done"
        /\ req[r].method = "DELETE"
        /\ req[r].auth = "SignatureMismatch"
        /\ req[r].job = NoJob
        /\ \E o \in OrderIds : orders[o] # NoOrder

\* C8: verification is read-only.  A step in which verification runs leaves
\* every credential (secret, active flag, expiry), every account and KYC row
\* and the clock as they were; the order store changes in such a step only
\* when verification succeeded and the request is a create, whose handler
\* stores the order in the same step.
C8_VerificationReadOnly ==
    [][\A r \in Slots :
         Admitted(r) /\ req'[r].auth # None =>
            /\ UNCHANGED <<now, credentials>>
            /\ (req'[r].auth # "Authenticated" \/ req'[r].method # "POST")
                  => UNCHANGED orderStore]_vars

\* C8 witness: a request was verified against an expired credential, and
\* the credential is still the expired one.
C8_Witness ==
    \E r \in Slots :
        /\ req[r].pc = "done"
        /\ req[r].auth = "CredentialExpired"
        /\ webhook_secret[req[r].caller] = create_webhook_secret(0)
        /\ now > webhook_secret[req[r].caller].expires_at[1]

\* The caller of the request worker r takes up, as the permission check
\* sees them.
CallerUnauthenticated(r) ==
    req'[r].caller = Anonymous \/ ~is_active[req'[r].caller]
CallerUnapproved(r) ==
    /\ req'[r].caller # Anonymous
    /\ is_active[req'[r].caller]
    /\ ~kyc[req'[r].caller].approved
\* The request is turned away with this code and nothing else happens.
Rejected(r, code) ==
    /\ req'[r].pc = "done"
    /\ req'[r].status = code
    /\ req'[r].job = NoJob
    /\ UNCHANGED <<now, db>>

\* C9 (as stated): a request by a caller who is not authenticated or whose
\* KYC is not approved is rejected with 403, changes no stored state and
\* enqueues no job.
C9_Rejected403 ==
    [][\A r \in Slots :
         Admitted(r) /\ (CallerUnauthenticated(r) \/ CallerUnapproved(r))
            => Rejected(r, 403)]_vars

\* C9 (amended): a request by a caller who is not authenticated is rejected
\* with 401, and a request by an authenticated caller whose KYC is not
\* approved (never approved, or approved and revoked since) is rejected with
\* 403; either changes no stored state and enqueues no job.
C9_Rejected401Or403 ==
    [][\A r \in Slots :
         /\ Admitted(r) /\ CallerUnauthenticated(r) => Rejected(r, 401)
         /\ Admitted(r) /\ CallerUnapproved(r) => Rejected(r, 403)]_vars

\* C9 witness: a caller whose approval was revoked (the credential the
\* approval created is still stored) was rejected with 403 while an order is
\* stored.
C9_Witness ==
    \E r \in Slots :
        /\ req[r].pc = "done"
        /\ req[r].status = 403
        /\ req[r].caller # Anonymous
        /\ kyc[req[r].caller] # NoKYC
        /\ ~kyc[req[r].caller].approved
        /\ webhook_secret[req[r].caller] # NoSecret
        /\ \E o \in OrderIds : orders[o] # NoOrder

\* C10 (as stated): a delete of an existing order enqueues exactly one
\* deletion notice, carrying the customer e-mail read before the deletion
\* (so a delete request that enqueues a notice is the one that removed the
\* row), and an order id that was deleted stays without a row: every later
\* lookup of it is NotFound.
C10_DeletedStaysDeleted ==
    [][/\ \A r \in Slots :
            req[r].pc = "delete_do" /\ req'[r].pc = "done" =>
                /\ orders[req[r].id] # NoOrder
                /\ orders'[req[r].id] = NoOrder
                /\ req'[r].job.kind = "order_deleted"
                /\ req'[r].job.email =
                      customers[orders[req[r].id].customer_details]
       /\ \A o \in OrderIds :
            o < nextId /\ orders[o] = NoOrder => orders'[o] = NoOrder]_vars

\* C11: every StatusHistory row references a stored order: a delete takes
\* the order's history rows with it, and nothing that runs afterwards (a
\* job, or an update that was in flight) leaves a row for the deleted order.
C11_HistoryReferencesStoredOrder ==
    \A i \in 1..Len(history) : orders[history[i].order] # NoOrder

\* C11 witness: a delete was answered after removing the order together
\* with a history row of it, and no row of that order is left.
C11_Witness ==
    \E r \in Slots :
        /\ req[r].pc = "done"
        /\ req[r].method = "DELETE"
        /\ req[r].status = 204
        /\ req[r].removed > 0
        /\ orders[req[r].id] = NoOrder
        /\ HistoryOf(history, req[r].id) = <<>>

\* The job that ran found no stored order under its id.
TargetMissing == orders[executed.order_id] = NoOrder
\* The job has left the backend: its TaskResult is final.
Finished == executed.status \in {"SUCCEEDED", "FAILED"}

\* C12 (as stated): an order-received or status-update job that executes
\* when its target order is not stored (deleted, or never created) completes
\* without error and sends no e-mail.
C12_MissingTargetIsNoError ==
    /\ executed.status \notin {None, "NEW"}
    /\ executed.kind \in {"order_received", "status_update"}
    /\ TargetMissing
    => /\ executed.status = "SUCCEEDED"
       /\ executed.mail_to = None
       /\ executed.attempts = 0

\* C13 (as stated): the e-mail of a status-update job names the order's
\* tracking_status as stored when the job executes: run on a stored order
\* with a working mail transport, the job mails the order's customer the
\* status the order holds then.
C13_MailNamesLiveStatus ==
    /\ executed.status \notin {None, "NEW"}
    /\ executed.kind = "status_update"
    /\ ~TargetMissing
    /\ executed.failing = 0
    => /\ executed.mail_to =
             customers[orders[executed.order_id].customer_details]
       /\ executed.named = orders[executed.order_id].tracking_status

\* The job has an e-mail to send: a deletion notice, or a notice about an
\* order that is stored.
HasMailToSend == executed.kind = "order_deleted" \/ ~TargetMissing

\* C14 (as stated): a job execution with an e-mail to send makes a first
\* send attempt at once and, while sends fail, retries up to 3 more times,
\* stopping at the first send that succeeds: after k failing sends it has
\* made k + 1 attempts and succeeded when k <= 3, and 4 attempts and failed
\* when k > 3.
C14_BoundedRetry ==
    executed.status \notin {None, "NEW"} /\ HasMailToSend =>
        IF executed.failing <= 3
        THEN /\ executed.attempts = executed.failing + 1
             /\ executed.status = "SUCCEEDED"
        ELSE /\ executed.attempts = 4
             /\ executed.status = "FAILED"

\* C15: every job terminates: a job enqueued is eventually finished, as
\* SUCCEEDED or FAILED, and a finished job is not run again or altered; a
\* job with an e-mail to send whose sends all fail ends FAILED, a result
\* that is stored and observable rather than dropped.
C15_JobsEndObservably ==
    /\ <>Finished
    /\ [][Finished => executed' = executed]_vars
    /\ [](Finished /\ HasMailToSend /\ executed.failing = MaxFailing
             => executed.status = "FAILED" /\ executed.executions = 1)

\* A deletion notice whose every send fails has ended FAILED.
C15_Witness ==
    /\ Finished
    /\ executed.kind = "order_deleted"
    /\ executed.failing = MaxFailing
    /\ executed.status = "FAILED"

\* The code a handler answers with when its own work is done.
OwnCode(method) ==
    CASE method = "POST" -> 201 [] method = "PATCH" -> 200
      [] method = "DELETE" -> 204 [] OTHER -> 0

\* C16: the outcome of a job never reaches the HTTP caller: the step in
\* which a POST, PATCH or DELETE enqueues its job answers 201, 200 or 204
\* and leaves the rows its own write left, whatever the result of the job:
\* the job adds or removes no row, and only the handler's order is touched.
C16_JobOutcomeNotInResponse ==
    [][\A r \in Slots :
          Answers(r) /\ req'[r].job # NoJob =>
            /\ req'[r].status = OwnCode(req'[r].method)
            /\ req'[r].job.result \in {"SUCCEEDED", "FAILED"}
            /\ history' = IF req'[r].method = "DELETE"
                          THEN SelectSeq(history,
                                         LAMBDA row : row.order # req'[r].id)
                          ELSE history
            /\ \A o \in OrderIds \ {req'[r].id} : orders'[o] = orders[o]
            /\ req'[r].method = "POST" => orders' = orders
            /\ req'[r].method = "DELETE" => orders'[req'[r].id] = NoOrder
            /\ UNCHANGED <<customers, nextId, credentials>>]_vars

\* A POST answered 201 whose confirmation job failed, its order stored.
C16_Witness ==
    \E r \in Slots :
        /\ req[r].pc = "done" /\ req[r].method = "POST"
        /\ req[r].status = 201
        /\ req[r].job # NoJob /\ req[r].job.result = "FAILED"
        /\ orders[req[r].id] # NoOrder

\* C17: each enqueue leads to exactly one execution of its job: the job a
\* handler enqueued has executed once and ended when the handler answers,
\* every POST, PATCH or DELETE that answers with its own code has enqueued
\* one, and a request that enqueued nothing (a read, a refused or in-flight
\* request) has no job and no effect of one.
C17_OneExecutionPerEnqueue ==
    \A r \in Slots :
        IF req[r].job # NoJob
        THEN /\ req[r].job.executions = 1
             /\ req[r].job.result \in {"SUCCEEDED", "FAILED"}
             /\ req[r].job.attempts <= 1
             /\ req[r].pc = "done"
             /\ req[r].method \in {"POST", "PATCH", "DELETE"}
             /\ req[r].status = OwnCode(req[r].method)
        ELSE /\ req[r].rows = <<>>
             /\ ~(/\ req[r].pc = "done"
                  /\ req[r].method \in {"POST", "PATCH", "DELETE"}
                  /\ req[r].status = OwnCode(req[r].method))

\* A DELETE answered 204 whose deletion notice ran once and was sent.
C17_Witness ==
    \E r \in Slots :
        /\ req[r].pc = "done" /\ req[r].method = "DELETE"
        /\ req[r].job # NoJob /\ req[r].job.kind = "order_deleted"
        /\ req[r].job.executions = 1
        /\ req[r].job.mail_to # None

\* The request worker r takes up has valid authentication: its caller is
\* an active account with approved KYC, and its headers name an active
\* account and carry the key of that account's active, unexpired credential.
ValidAuthentication(r) ==
    LET p == req'[r].caller
        u == req'[r].headers.customer_email
    IN  /\ p # Anonymous /\ is_active[p]
        /\ kyc[p] # NoKYC /\ kyc[p].approved
        /\ u \in Users /\ is_active[u]
        /\ webhook_secret[u] # NoSecret
        /\ webhook_secret[u].is_active
        /\ webhook_secret[u].expires_at # <<>>
        /\ now <= webhook_secret[u].expires_at[1]
        /\ req'[r].headers.signature = webhook_secret[u].secret_key

\* The step stores exactly one order, under the fresh id, for worker r, and
\* enqueues nothing yet.
StoresOneOrder(r) ==
    /\ req'[r].pc = "post_enqueue"
    /\ req'[r].id = nextId
    /\ nextId' = nextId + 1
    /\ orders[nextId] = NoOrder /\ orders'[nextId] # NoOrder
    /\ \A o \in OrderIds \ {nextId} : orders'[o] = orders[o]
    /\ req'[r].job = NoJob

\* The step after the save: one confirmation job keyed by the created id,
\* no further order, and the answer 201.
EnqueuesConfirmation(r) ==
    /\ req'[r].pc = "done"
    /\ req'[r].status = 201
    /\ req'[r].job # NoJob
    /\ req'[r].job.kind = "order_received"
    /\ req'[r].job.order_id = req[r].id
    /\ req'[r].job.executions = 1
    /\ UNCHANGED <<orders, nextId>>

\* C18 (as stated): a POST with valid authentication and a valid payload
\* adds exactly one order to the store and then, the order persisted,
\* enqueues exactly one order-received job keyed by the created id and
\* returns 201.
C18_ValidPostCreates ==
    [][\A r \in Slots :
          /\ Admitted(r) /\ req'[r].method = "POST"
             /\ ValidAuthentication(r) /\ req'[r].valid
             => StoresOneOrder(r)
          /\ req[r].pc = "post_enqueue" /\ req'[r] # req[r]
             => EnqueuesConfirmation(r)]_vars

\* C18 (amended): a POST with valid authentication and a valid payload that
\* the rate limit admits (it is not answered 429) adds exactly one order to
\* the store and then, the order persisted, enqueues exactly one
\* order-received job keyed by the created id and returns 201.
C18_AdmittedValidPostCreates ==
    [][\A r \in Slots :
          /\ Admitted(r) /\ req'[r].method = "POST"
             /\ ValidAuthentication(r) /\ req'[r].valid
             /\ req'[r].status # 429
             => StoresOneOrder(r)
          /\ req[r].pc = "post_enqueue" /\ req'[r] # req[r]
             => EnqueuesConfirmation(r)]_vars

\* A valid POST answered 201: its order stored, its confirmation job run.
C18_Witness ==
    \E r \in Slots :
        /\ req[r].pc = "done" /\ req[r].method = "POST" /\ req[r].valid
        /\ req[r].status = 201
        /\ orders[req[r].id] # NoOrder
        /\ req[r].job # NoJob /\ req[r].job.kind = "order_received"
        /\ req[r].job.order_id = req[r].id

\* C19: every successful PATCH of an existing order, one that supplies
\* only an address included, returns 200, has persisted each field it
\* supplied when it answers, and has enqueued the status-update job for
\* its order exactly once.
C19_PatchPersistsAndEnqueuesOnce ==
    [][\A r \in Slots :
          req[r].pc = "patch_save" /\ Answers(r) /\ req'[r].status # 400 =>
            /\ req'[r].status = 200
            /\ orders'[req'[r].id] # NoOrder
            /\ req'[r].address # None
                  => orders'[req'[r].id].address = req'[r].address
            /\ req'[r].sent # None
                  => orders'[req'[r].id].tracking_status = req'[r].sent
            /\ req'[r].job # NoJob
            /\ req'[r].job.kind = "status_update"
            /\ req'[r].job.order_id = req'[r].id
            /\ req'[r].job.executions = 1]_vars

\* A PATCH that supplied only an address: answered 200, the address stored,
\* the status as it was, its job run once.
C19_Witness ==
    \E r \in Slots :
        /\ PatchAnswered(r)
        /\ req[r].sent = None /\ req[r].address # None
        /\ orders[req[r].id] # NoOrder
        /\ orders[req[r].id].address = req[r].address
        /\ orders[req[r].id].tracking_status = req[r].was
        /\ req[r].job # NoJob /\ req[r].job.kind = "status_update"
        /\ req[r].job.executions = 1

\* C20 (as stated): every order creation with a customer block creates a
\* new customer record, also when an identical one is stored: the creation
\* leaves the stored customer rows as they were and adds one.
C20_EveryCreationAddsCustomer ==
    [][nextId' # nextId =>
          /\ Len(customers') = Len(customers) + 1
          /\ SubSeq(customers', 1, Len(customers)) = customers
          /\ orders'[nextId].customer_details = Len(customers')]_vars

\* A KYC save for account u has written the row and not yet left its
\* post_save handler.
SavingKYC(u) ==
    \E w \in Slots :
        /\ calls[w].op = "save" /\ calls[w].user = u
        /\ calls[w].pc \in {"signal_read", "signal_write"}

\* C21: each account has at most one WebhookSecret row, and an account
\* whose KYC row has been saved as approved (the save and its handler are
\* over) has exactly one, which is active, under every interleaving of KYC
\* saves and get_or_create_webhook_secret calls.
C21_OneActiveCredential ==
    \A u \in Users :
        /\ secret_rows[u] <= 1
        /\ secret_rows[u] = 1 <=> webhook_secret[u] # NoSecret
        /\ kyc[u].approved /\ ~SavingKYC(u) =>
              /\ secret_rows[u] = 1
              /\ webhook_secret[u].is_active

\* Two calls met at the creation: one inserted the credential, the other
\* was refused by the unique constraint, and the approved account has one.
C21_Witness ==
    \E w, x \in Slots :
        /\ calls[w].pc = "done" /\ calls[w].error = "IntegrityError"
        /\ calls[x].pc = "done" /\ calls[x].op = "save" /\ calls[x].approved
        /\ calls[x].user = calls[w].user
        /\ kyc[calls[w].user].approved
        /\ secret_rows[calls[w].user] = 1

\* What verification makes, in the state after the step, of a request that
\* names account u and is signed with key.
VerifiesAfter(u, key) ==
    verify_webhook_signature(u, key, is_active', webhook_secret', now')

\* C22: regenerating an account's credential replaces the secret value in
\* the same record: right after the step the account still has its one
\* row, which is active and not expired, a request signed with the new
\* secret authenticates and one signed with the previous secret does not.
C22_RegenerateSupersedes ==
    [][\A u \in Users :
          webhook_secret[u] # NoSecret /\ webhook_secret'[u] # webhook_secret[u] =>
            /\ secret_rows'[u] = secret_rows[u]
            /\ webhook_secret'[u] # NoSecret
            /\ webhook_secret'[u].is_active
            /\ ~is_expired(webhook_secret'[u], now')
            /\ webhook_secret'[u].secret_key # webhook_secret[u].secret_key
            /\ VerifiesAfter(u, webhook_secret'[u].secret_key) = "Authenticated"
            /\ VerifiesAfter(u, webhook_secret[u].secret_key) # "Authenticated"]_vars

\* A call found the credential expired and regenerated it: the stored
\* secret is the new one, not the one the call read.
C22_Witness ==
    \E w \in Slots :
        /\ calls[w].pc = "done"
        /\ calls[w].seen # NoSecret
        /\ calls[w].secret # None
        /\ calls[w].secret # calls[w].seen.secret_key
        /\ webhook_secret[calls[w].user].secret_key = calls[w].secret
        /\ webhook_secret[calls[w].user].expires_at = <<now + SecretLifetimeDays>>

\* C23 (as stated): each request failure is answered with its own error
\* status and none as an unhandled fault (500): a missing or wrong webhook
\* signature with 400 or 401, an unknown or inactive calling account with
\* 404, and a payload that fails validation with 400.
C23_FailuresHaveOwnStatus ==
    \A r \in Slots :
        req[r].pc = "done" =>
            /\ req[r].auth \in {"MissingCredentialHeader", "SignatureMismatch"}
                  => req[r].status \in {400, 401}
            /\ req[r].auth = "UnknownOrInactiveAccount" => req[r].status = 404
            /\ req[r].method = "POST" /\ req[r].auth = "Authenticated"
               /\ ~req[r].validates
                  => req[r].status = 400

\* The order with this id is not stored: the id was never issued, or its
\* order was deleted.
Missing(id) == id \notin OrderIds \/ orders[id] = NoOrder

\* C24 (as stated): a get, update or delete addressed to an order id that
\* does not exist returns 404, changes no stored row and enqueues no job;
\* in particular deleting the same order twice enqueues only one deletion
\* notice: a delete enqueues its notice only when it removes a stored order.
C24_MissingOrderIs404 ==
    [][\A r \in Slots :
          /\ Admitted(r) /\ req'[r].auth = "Authenticated"
             /\ \/ req'[r].method \in {"PATCH", "DELETE"} /\ Missing(req'[r].id)
                \/ req'[r].method = "GET"
                   /\ req'[r].id \in OrderIds /\ Missing(req'[r].id)
             => Rejected(r, 404)
          /\ Answers(r) /\ req'[r].method = "DELETE" /\ req'[r].job # NoJob
             => ~Missing(req'[r].id)]_vars

\* C25 (as stated): an OTP is single-use: at most one verification of an
\* OTP row ever succeeds and enqueues an activation job, and a verification
\* sent the code of a row that is marked used is answered 404 and enqueues
\* none, also when two verifications of the same OTP interleave.
C25_OTPSingleUse ==
    [][\A u \in Users :
          /\ \A c \in OTPCodes : otp_in_db'[u][c].activations <= 1
          /\ \A w \in Slots :
                /\ calls[w].pc = "idle" /\ calls'[w].op = "verify"
                /\ calls'[w].user = u /\ calls'[w].code \in OTPCodes
                /\ otp_in_db[u][calls'[w].code].is_used
                => /\ calls'[w].pc = "done"
                   /\ calls'[w].status = 404
                   /\ calls'[w].enqueued = 0]_vars

\* Worker w's get_or_create_webhook_secret call returns in this step.
Returns(w) ==
    /\ calls[w].pc # "done" /\ calls'[w].pc = "done"
    /\ calls'[w].op = "get" /\ calls'[w].error = None

\* C27: get_or_create_webhook_secret for an account without an approved
\* KYC row returns (None, False) at once and creates, regenerates and
\* modifies nothing; for an approved account it returns created = True
\* only when the account had no credential before the call, and the secret
\* it returns is the one stored for the account when it returns.
C27_GetOrCreateReturn ==
    [][\A w \in Slots :
          Returns(w) =>
            LET c == calls'[w]
                u == c.user
            IN  IF ~c.was
                THEN /\ calls[w].pc = "idle"
                     /\ c.secret = None /\ ~c.created
                     /\ UNCHANGED <<kyc, is_active, webhook_secret, secret_rows>>
                ELSE /\ c.created =>
                          /\ c.before = NoSecret
                          /\ webhook_secret[u] = NoSecret /\ secret_rows[u] = 0
                     /\ c.secret # None
                     /\ webhook_secret'[u] # NoSecret
                     /\ c.secret = webhook_secret'[u].secret_key]_vars

\* One call has returned (None, False) for the account while its KYC row
\* was not approved, and a later one has created its credential and
\* returned created = True with the secret that is stored.
C27_Witness ==
    \E w, x \in Slots :
        /\ calls[w].pc = "done" /\ calls[w].op = "get"
        /\ ~calls[w].was /\ calls[w].secret = None /\ ~calls[w].created
        /\ calls[x].pc = "done" /\ calls[x].op = "get"
        /\ calls[x].user = calls[w].user
        /\ calls[x].was /\ calls[x].created
        /\ calls[x].before = NoSecret
        /\ calls[x].secret = webhook_secret[calls[x].user].secret_key

\* Worker w's KYC save, handler included, is over with this step.
Saved(w) ==
    /\ calls[w].pc # "done" /\ calls'[w].pc = "done"
    /\ calls'[w].op = "save"

NoAccountHeader == verified.customer_email = None
NoSuchActiveAccount ==
    ~(verified.customer_email \in Users /\ is_active[verified.customer_email])
NoSignatureHeader == verified.signature = <<>>
CredentialUnusable ==
    LET ws == webhook_secret[verified.customer_email]
    IN  ~ws.is_active \/ is_expired(ws, now)

\* C29: verification reports one failure, the first in the order missing
\* account header, unknown or inactive account, missing signature header,
\* inactive or expired credential, signature mismatch, whatever other
\* defects the request has: a wrong signature against an expired
\* credential is reported as CredentialExpired, and an outcome of the
\* comparison is reported only when every earlier check has passed.
C29_FirstDefectReported ==
    verified.outcome # None =>
        /\ IF NoAccountHeader
           THEN verified.outcome = "MissingCredentialHeader"
           ELSE IF NoSuchActiveAccount
           THEN verified.outcome = "UnknownOrInactiveAccount"
           ELSE IF NoSignatureHeader
           THEN verified.outcome = "MissingCredentialHeader"
           ELSE webhook_secret[verified.customer_email] # NoSecret =>
                  IF CredentialUnusable
                  THEN verified.outcome = "CredentialExpired"
                  ELSE IF ~VerifiedSignatureEqual /\ ~HasNonAscii(verified.signature)
                  THEN verified.outcome = "SignatureMismatch"
                  ELSE verified.outcome \in {"Authenticated", "TypeError"}
        /\ verified.outcome \in {"SignatureMismatch", "Authenticated", "TypeError"} =>
              /\ ~NoAccountHeader /\ ~NoSuchActiveAccount /\ ~NoSignatureHeader
              /\ webhook_secret[verified.customer_email] # NoSecret
              /\ ~CredentialUnusable

\* A signature that differs from the secret was checked against an expired
\* credential of an active account, and the failure reported is
\* CredentialExpired.
C29_Witness ==
    /\ VerifiedActiveCredential
    /\ verified.signature # <<>>
    /\ ~HasNonAscii(verified.signature)
    /\ ~VerifiedSignatureEqual
    /\ VerifiedPastExpiry
    /\ verified.outcome = "CredentialExpired"

\* A PATCH of order o has been admitted and has not answered: its
\* status-update job is still to be enqueued and run.
StatusJobAhead(o) ==
    \E r \in Slots :
        req[r].pc = "patch_save" /\ req[r].method = "PATCH" /\ req[r].id = o

\* C30 (as stated): whenever a stored order has at least one history row
\* and no status-update job for it is pending or running, the status of
\* its last history row is the order's tracking_status, and no two
\* consecutive history rows of the order hold the same status.
C30_LastRowIsCurrentStatus ==
    \A o \in OrderIds :
        LET rows == HistoryOf(history, o)
        IN  orders[o] # NoOrder /\ Len(rows) >= 1 /\ ~StatusJobAhead(o) =>
              /\ rows[Len(rows)].status = orders[o].tracking_status
              /\ \A i \in 1..(Len(rows) - 1) : rows[i].status # rows[i + 1].status

====
